---- MODULE Spec2Model ----
(***************************************************************************)
(* A model of the lagen.nu pipeline.                                       *)
(*                                                                         *)
(*   src/la-w-spider.py  LagenNuSpider: the callbacks parse,               *)
(*                       parse_category, parse_law and closed, run one at  *)
(*                       a time by the crawler in any order the scheduler  *)
(*                       picks; they share the corpus self.data.           *)
(*   src/main.py         split_documents: the flattening of a corpus into  *)
(*                       chunks.                                           *)
(*                                                                         *)
(* Python values.  A str is a sequence of tokens (TLA+ strings), so that   *)
(* f-strings and " > ".join are concatenations; None is a value different  *)
(* from every str; a list is a sequence; a dict whose keys are fixed field *)
(* names is a function on the keys it holds (a key may be missing); a dict *)
(* that is iterated (the corpus) is a sequence of key/value entries in     *)
(* insertion order.                                                        *)
(***************************************************************************)
EXTENDS Integers, Sequences, FiniteSets, TLC

VARIABLES data, scheduler, seen, last, blobs, documents

vars == <<data, scheduler, seen, last, blobs, documents>>

(***************************************************************************)
(* Bounds of the model.                                                    *)
(***************************************************************************)
MaxChapters == 2
MaxSections == 2
MaxComments == 2
MaxParagraphs == 2
MaxPoints == 2
MaxLinks == 2
MaxLawLinks == 2

(***************************************************************************)
(* Python values.                                                          *)
(***************************************************************************)
None == <<"<None>">>

\* The empty dict {}.
EmptyDict == [k \in {} |-> None]

\* d.get(key): None when the key is missing.
Get(d, key) == IF key \in DOMAIN d THEN d[key] ELSE None

\* d.get(key, default).
GetOr(d, key, default) == IF key \in DOMAIN d THEN d[key] ELSE default

\* What an f-string's {v} renders: None prints as the word None.
Str(v) == IF v = None THEN <<"None">> ELSE v

\* The decimal numeral of an index, as an f-string's {i} renders it.
Numeral(i) == <<ToString(i)>>

SEP == " > "

\* " > ".join(segments)
RECURSIVE Join(_)
Join(segments) ==
  IF Len(segments) = 0 THEN <<>>
  ELSE IF Len(segments) = 1 THEN segments[1]
  ELSE segments[1] \o <<SEP>> \o Join(Tail(segments))

\* The concatenation of a sequence of sequences.
RECURSIVE Concat(_)
Concat(seqs) == IF Len(seqs) = 0 THEN <<>> ELSE Head(seqs) \o Concat(Tail(seqs))

(***************************************************************************)
(* An ordered dict: the entries in insertion order.                        *)
(***************************************************************************)
Keys(d) == {d[i].key : i \in 1..Len(d)}

Lookup(d, k) == d[CHOOSE i \in 1..Len(d) : d[i].key = k].val

\* d[k] = v: an existing key keeps its place.
Store(d, k, v) ==
  IF k \in Keys(d)
  THEN [i \in 1..Len(d) |-> IF d[i].key = k THEN [key |-> k, val |-> v] ELSE d[i]]
  ELSE Append(d, [key |-> k, val |-> v])

(***************************************************************************)
(* src/main.py: split_documents.                                           *)
(* An outcome is the chunks appended so far and the exception raised, if   *)
(* any.                                                                    *)
(***************************************************************************)
NoExc == "none"

Return(chunks) == [exc |-> NoExc, chunks |-> chunks]

Raise(exc) == [exc |-> exc, chunks |-> <<>>]

law_metadata(law) ==
  LET metadata == GetOr(law, "metadata", EmptyDict)
  IN [id |-> Get(law, "id"),
      title |-> Get(law, "title"),
      short_title |-> Get(law, "short_title"),
      department |-> Get(metadata, "department"),
      issued_date |-> Get(metadata, "issued_date"),
      last_amended |-> Get(GetOr(metadata, "last_amended", EmptyDict), "sfs")]

\* The element [0] of a count list, with the default [{}] for a missing key.
FirstCount(section, key) == GetOr(GetOr(section, key, <<EmptyDict>>)[1], "count", 0)

SectionChunk(lm, chapter, section, section_path) ==
  [content |-> GetOr(section, "text", <<>>),
   metadata |->
     [path |-> Join(section_path),
      law_info |-> lm,
      chapter_title |-> Get(chapter, "title"),
      section_number |-> Get(section, "number"),
      amendments |->
        LET amendments == GetOr(section, "amendments", <<>>)
        IN [a \in 1..Len(amendments) |-> Get(amendments[a], "law")],
      case_law_count |-> FirstCount(section, "case_law"),
      citations_count |-> FirstCount(section, "citations")]]

\* CommentChunk with the section's amendments copied into the metadata.
CommentChunkWithAmendments(lm, section, section_path, comment) ==
  [content |-> GetOr(comment, "text", <<>>),
   metadata |->
     [path |-> Join(Append(section_path, <<"Comment">>)),
      law_info |-> lm,
      comment_type |-> Get(comment, "type"),
      section_number |-> Get(section, "number"),
      amendments |->
        LET amendments == GetOr(section, "amendments", <<>>)
        IN [a \in 1..Len(amendments) |-> Get(amendments[a], "law")]]]

CommentChunk(lm, section, section_path, comment) ==
  [content |-> GetOr(comment, "text", <<>>),
   metadata |->
     [path |-> Join(Append(section_path, <<"Comment">>)),
      law_info |-> lm,
      comment_type |-> Get(comment, "type"),
      section_number |-> Get(section, "number")]]

ParaChunk(lm, section, section_path, i, paragraph) ==
  [content |-> GetOr(paragraph, "text", <<>>),
   metadata |->
     [path |-> Join(Append(section_path, <<"Paragraph ">> \o Numeral(i))),
      law_info |-> lm,
      section_number |-> Get(section, "number")]]

\* PointChunk with the path of its paragraph: the point index is left out.
PointChunkUnindexed(lm, section, section_path, i, j, point) ==
  [content |-> point,
   metadata |->
     [path |-> Join(Append(section_path, <<"Paragraph ">> \o Numeral(i))),
      law_info |-> lm,
      section_number |-> Get(section, "number")]]

PointChunk(lm, section, section_path, i, j, point) ==
  [content |-> point,
   metadata |->
     [path |-> Join(section_path \o
                    << <<"Paragraph ">> \o Numeral(i), <<"Point ">> \o Numeral(j) >>),
      law_info |-> lm,
      section_number |-> Get(section, "number")]]

\* for comment in section.get("comments", [])
CommentChunks(lm, section, section_path) ==
  LET comments == GetOr(section, "comments", <<>>)
  IN [k \in 1..Len(comments) |-> CommentChunk(lm, section, section_path, comments[k])]

\* for j, point in enumerate(paragraph.get("points", []), 1)
PointChunks(lm, section, section_path, i, paragraph) ==
  LET points == GetOr(paragraph, "points", <<>>)
  IN [j \in 1..Len(points) |-> PointChunk(lm, section, section_path, i, j, points[j])]

\* ParagraphChunks without the loop over the points.
ParagraphChunksWithoutPoints(lm, section, section_path) ==
  LET paragraphs == GetOr(section, "paragraphs", <<>>)
  IN [i \in 1..Len(paragraphs) |-> ParaChunk(lm, section, section_path, i, paragraphs[i])]

\* for i, paragraph in enumerate(section.get("paragraphs", []), 1)
ParagraphChunks(lm, section, section_path) ==
  LET paragraphs == GetOr(section, "paragraphs", <<>>)
  IN Concat([i \in 1..Len(paragraphs) |->
               <<ParaChunk(lm, section, section_path, i, paragraphs[i])>>
               \o PointChunks(lm, section, section_path, i, paragraphs[i])])

\* ProcessSection with the paragraph loop ahead of the comment loop.
ProcessSectionParagraphsFirst(lm, chapter, chapter_path, section) ==
  IF "number" \notin DOMAIN section THEN Raise("KeyError")
  ELSE IF \E key \in {"case_law", "citations"} :
            key \in DOMAIN section /\ Len(section[key]) = 0
  THEN Raise("IndexError")
  ELSE LET section_path == Append(chapter_path, <<"Section ">> \o Str(section["number"]))
       IN Return(<<SectionChunk(lm, chapter, section, section_path)>>
                 \o ParagraphChunks(lm, section, section_path)
                 \o CommentChunks(lm, section, section_path))

\* The body of the loop over a chapter's sections.
ProcessSection(lm, chapter, chapter_path, section) ==
  IF "number" \notin DOMAIN section THEN Raise("KeyError")
  ELSE IF \E key \in {"case_law", "citations"} :
            key \in DOMAIN section /\ Len(section[key]) = 0
  THEN Raise("IndexError")
  ELSE LET section_path == Append(chapter_path, <<"Section ">> \o Str(section["number"]))
       IN Return(<<SectionChunk(lm, chapter, section, section_path)>>
                 \o CommentChunks(lm, section, section_path)
                 \o ParagraphChunks(lm, section, section_path))

\* for section in chapter.get("sections", []), from the k-th on
RECURSIVE ProcessSections(_, _, _, _, _)
ProcessSections(lm, chapter, chapter_path, sections, k) ==
  IF k > Len(sections) THEN Return(<<>>)
  ELSE LET first == ProcessSection(lm, chapter, chapter_path, sections[k])
       IN IF first.exc # NoExc THEN first
          ELSE LET rest == ProcessSections(lm, chapter, chapter_path, sections, k + 1)
               IN IF rest.exc # NoExc THEN rest
                  ELSE Return(first.chunks \o rest.chunks)

\* The body of the loop over a law's chapters.
ProcessChapter(lm, path, chapter) ==
  IF "number" \notin DOMAIN chapter THEN Raise("KeyError")
  ELSE LET chapter_path == Append(path, <<"Chapter ">> \o Str(chapter["number"]))
       IN ProcessSections(lm, chapter, chapter_path, GetOr(chapter, "sections", <<>>), 1)

\* for chapter in law.get("chapters", []), from the k-th on
RECURSIVE ProcessChapters(_, _, _, _)
ProcessChapters(lm, path, chapters, k) ==
  IF k > Len(chapters) THEN Return(<<>>)
  ELSE LET first == ProcessChapter(lm, path, chapters[k])
       IN IF first.exc # NoExc THEN first
          ELSE LET rest == ProcessChapters(lm, path, chapters, k + 1)
               IN IF rest.exc # NoExc THEN rest
                  ELSE Return(first.chunks \o rest.chunks)

process_law(law, path) ==
  ProcessChapters(law_metadata(law), path, GetOr(law, "chapters", <<>>), 1)

\* for law_name, law_content in laws.items(), from the k-th on
RECURSIVE ProcessLaws(_, _, _)
ProcessLaws(category, laws, k) ==
  IF k > Len(laws) THEN Return(<<>>)
  ELSE LET first == process_law(laws[k].val, << <<category>>, <<laws[k].key>> >>)
       IN IF first.exc # NoExc THEN first
          ELSE LET rest == ProcessLaws(category, laws, k + 1)
               IN IF rest.exc # NoExc THEN rest
                  ELSE Return(first.chunks \o rest.chunks)

\* for category, laws in ...items(), from the k-th on
RECURSIVE ProcessCategories(_, _)
ProcessCategories(lagar, k) ==
  IF k > Len(lagar) THEN Return(<<>>)
  ELSE LET first == ProcessLaws(lagar[k].key, lagar[k].val, 1)
       IN IF first.exc # NoExc THEN first
          ELSE LET rest == ProcessCategories(lagar, k + 1)
               IN IF rest.exc # NoExc THEN rest
                  ELSE Return(first.chunks \o rest.chunks)

split_documents(legal) ==
  ProcessCategories(GetOr(GetOr(legal, "lagen", EmptyDict), "lagar", <<>>), 1)

\* read_documents: every blob is split and the chunks are collected; any
\* exception is caught, printed, and [] is returned.
RECURSIVE ReadBlobs(_, _)
ReadBlobs(bs, k) ==
  IF k > Len(bs) THEN Return(<<>>)
  ELSE LET first == split_documents(bs[k])
       IN IF first.exc # NoExc THEN first
          ELSE LET rest == ReadBlobs(bs, k + 1)
               IN IF rest.exc # NoExc THEN rest
                  ELSE Return(first.chunks \o rest.chunks)

read_documents(bs) == ReadBlobs(bs, 1)

(***************************************************************************)
(* src/la-w-spider.py: URLs.  A URL or href is its host (the empty string  *)
(* when it has none) and its path, a sequence of tokens in which "/" is a  *)
(* token of its own.                                                       *)
(***************************************************************************)
Href(netloc, path) == [netloc |-> netloc, path |-> path]

\* The href as the string the page holds.
HrefStr(h) ==
  IF h.netloc = "" THEN h.path ELSE <<"https:", "/", "/", h.netloc>> \o h.path

\* needle in haystack, on strings
Contains(haystack, needle) ==
  \E i \in 0..(Len(haystack) - Len(needle)) :
    \A k \in 1..Len(needle) : haystack[i + k] = needle[k]

Disallowed == { <<"/", "api", "/">>, <<"/", "search", "/">>, <<"/", "-", "/">> }

\* The positions of "/" in a string.
Slashes(s) == {i \in 1..Len(s) : s[i] = "/"}

Max(S) == CHOOSE x \in S : \A y \in S : y <= x

\* s.split('/')[-1]
LastSegment(s) ==
  IF Slashes(s) = {} THEN s ELSE SubSeq(s, Max(Slashes(s)) + 1, Len(s))

\* s.endswith('.png')
EndsWithPng(s) == Len(s) > 0 /\ s[Len(s)] = ".png"

\* urljoin(base, href), for hrefs without dot segments, query or fragment.
urljoin(base, h) ==
  IF h.netloc # "" THEN h
  ELSE IF h.path = <<>> THEN base
  ELSE IF h.path[1] = "/" THEN Href(base.netloc, h.path)
  ELSE IF Slashes(base.path) = {} THEN Href(base.netloc, <<"/">> \o h.path)
  ELSE Href(base.netloc, SubSeq(base.path, 1, Max(Slashes(base.path))) \o h.path)

\* The condition of the if in parse.
Follows(base_domain, h) ==
  /\ (h.netloc = base_domain \/ h.netloc = "")
  /\ ~ \E disallowed \in Disallowed : Contains(HrefStr(h), disallowed)

StartUrl == Href("lagen.nu", <<"/">>)

(***************************************************************************)
(* The crawler.  A request is a URL, the callback to run on its response   *)
(* and the category in its meta.  The scheduler drops a request whose URL  *)
(* it has seen (the default duplicate filter; the start request is not     *)
(* filtered), and runs the callbacks of the pending requests one at a      *)
(* time, in any order.  A callback that is a generator is run here in one  *)
(* step: its statements before the first yield run first in either case,   *)
(* and the requests it yields only join the pending set.                   *)
(***************************************************************************)
Request(url, callback, category) ==
  [url |-> url, callback |-> callback, category |-> category]

\* The requests among rs that pass the duplicate filter.
Fresh(rs) == {r \in rs : r.url \notin seen}

Range(s) == {s[i] : i \in 1..Len(s)}

\* The sequences over S of length at most n.
SeqsUpTo(S, n) == UNION {[1..m -> S] : m \in 0..n}

\* The record of the last callback: which callback ran, on which URL and meta
\* category, what it printed (the links found and followed, the law built, the
\* exception that ended it), and the corpus as it was when the callback began.
Log(callback, r, links, followed, law, raised, before) ==
  [callback |-> callback, url |-> r.url, category |-> r.category, links |-> links,
   followed |-> followed, law |-> law, raised |-> raised, before |-> before]

\* The links a front page may hold.
Hrefs ==
  { Href("", <<"/", "k">>),
    Href("", <<"/", "a", "/", "k">>),
    Href("", <<"/">>),
    Href("", <<"/", "api", "/", "k">>),
    Href("", <<"api", "/", "k">>),
    Href("", <<"/", "-", "/", "k">>),
    Href("lagen.nu", <<"/", "k">>),
    Href("lagen.nu", <<"/", "search", "/">>),
    Href("other.se", <<"/", "k">>) }

\* The law links a category page may hold.
LawHrefs ==
  { Href("", <<"l1">>),
    Href("", <<"/", "k", "/", "l2">>),
    Href("", <<"/", "img", "/", "l1", ".png">>) }

\* parse: the links of the front page that are followed, in order.
Followed(response_url, all_links) ==
  LET idx == {i \in 1..Len(all_links) : Follows(response_url.netloc, all_links[i])}
      Nth(n) == CHOOSE i \in idx : Cardinality({j \in idx : j < i}) = n - 1
  IN [n \in 1..Cardinality(idx) |-> urljoin(response_url, all_links[Nth(n)])]

Parse(r) ==
  /\ r \in scheduler
  /\ r.callback = "parse"
  /\ \E all_links \in SeqsUpTo(Hrefs, MaxLinks) :
       LET followed == Followed(r.url, all_links)
           yielded == {Request(u, "parse_category", <<>>) : u \in Range(followed)}
       IN /\ scheduler' = (scheduler \ {r}) \cup Fresh(yielded)
          /\ seen' = seen \cup {q.url : q \in yielded}
          /\ last' = Log("parse", r, all_links, followed, None, NoExc, data)
  /\ UNCHANGED <<data, blobs, documents>>

\* CreateCategory that creates nothing.
CreateCategoryNever(d, category) == d

\* self.data["lagen"]["lagar"][category] = {}
CreateCategory(d, category) == Store(d, category, <<>>)

ParseCategory(r) ==
  /\ r \in scheduler
  /\ r.callback = "parse_category"
  /\ LET category == LastSegment(HrefStr(r.url))
     IN /\ data' = CreateCategory(data, category)
        /\ \E hrefs \in SeqsUpTo(LawHrefs, MaxLawLinks) :
             LET yielded == {Request(urljoin(r.url, h), "parse_law", category) :
                               h \in {x \in Range(hrefs) : ~ EndsWithPng(HrefStr(x))}}
             IN /\ scheduler' = (scheduler \ {r}) \cup Fresh(yielded)
                /\ seen' = seen \cup {q.url : q \in yielded}
                /\ last' = Log("parse_category", r, <<>>, <<>>, None, NoExc, data)
  /\ UNCHANGED <<blobs, documents>>

(***************************************************************************)
(* A law page, as the selectors of parse_law see it: the single values     *)
(* (None when nothing matches), and the chapter, section and paragraph     *)
(* elements in document order.                                             *)
(***************************************************************************)
\* The law parse_law builds from a page.
BuildSection(s) ==
  [number |-> s.h3,
   text |-> s.p,
   comments |-> [k \in 1..Len(s.comment) |->
                   [text |-> s.comment[k], type |-> <<"explanation">>]],
   amendments |-> [k \in 1..Len(s.amendment) |-> [law |-> s.amendment[k]]],
   case_law |-> <<[count |-> s.case_law_reference]>>,
   citations |-> <<[count |-> s.citation_reference]>>,
   paragraphs |-> [k \in 1..Len(s.paragraph) |->
                     [text |-> s.paragraph[k].text, points |-> s.paragraph[k].li]]]

BuildChapter(c) ==
  [number |-> c.h2,
   title |-> c.small,
   sections |-> [j \in 1..Len(c.section) |-> BuildSection(c.section[j])]]

BuildLaw(law_name, page) ==
  [id |-> law_name,
   title |-> page.h1,
   short_title |-> page.small,
   metadata |-> [department |-> page.department,
                 issued_date |-> page.issued_date,
                 last_amended |-> [sfs |-> page.last_amended]],
   chapters |-> [i \in 1..Len(page.chapter) |-> BuildChapter(page.chapter[i])]]

\* InsertLaw that merges into a law already under the key: the chapters of the
\* new law are appended to those of the old.
InsertLawMerging(d, category, law_name, law) ==
  LET laws == Lookup(d, category)
  IN IF law_name \in Keys(laws)
     THEN Store(d, category,
                Store(laws, law_name,
                      [law EXCEPT !.chapters = Lookup(laws, law_name).chapters \o @]))
     ELSE Store(d, category, Store(laws, law_name, law))

\* InsertLaw that leaves out a law of no chapters.
InsertLawWithChapters(d, category, law_name, law) ==
  IF law.chapters = <<>> THEN d
  ELSE Store(d, category, Store(Lookup(d, category), law_name, law))

\* self.data["lagen"]["lagar"][category][law_name] = law
InsertLaw(d, category, law_name, law) ==
  Store(d, category, Store(Lookup(d, category), law_name, law))

(***************************************************************************)
(* Pages of the model.  PageOf draws a page of nc chapters; the chapter i  *)
(* is numbered chn[i] and its section j is numbered secn[j]; the numbers   *)
(* of sections, comments, amendments, paragraphs and points vary with the  *)
(* position, from ns, c, p and q, so that the parts of one page differ;    *)
(* every text names its position.                                          *)
(***************************************************************************)
Tag(kind, pos) == <<kind>> \o [n \in 1..Len(pos) |-> ToString(pos[n])]

ParagraphOf(i, j, k, q) ==
  [text |-> Tag("par", <<i, j, k>>),
   li |-> [l \in 1..((q + i + j + k) % (MaxPoints + 1)) |-> Tag("pt", <<i, j, k, l>>)]]

SectionOf(i, j, secn, c, p, q) ==
  [h3 |-> secn[j],
   p |-> Tag("sec", <<i, j>>),
   comment |-> [k \in 1..((c + i + j) % (MaxComments + 1)) |-> Tag("com", <<i, j, k>>)],
   amendment |-> [k \in 1..((i + j) % 2) |-> Tag("sfs", <<i, j, k>>)],
   case_law_reference |-> i,
   citation_reference |-> j,
   paragraph |-> [k \in 1..((p + i + j) % (MaxParagraphs + 1)) |-> ParagraphOf(i, j, k, q)]]

ChapterOf(i, ns, chn, secn, c, p, q) ==
  [h2 |-> chn[i],
   small |-> Tag("chapter", <<i>>),
   section |-> [j \in 1..((ns + i) % (MaxSections + 1)) |-> SectionOf(i, j, secn, c, p, q)]]

PageOf(nc, ns, chn, secn, c, p, q) ==
  [h1 |-> <<"title">>,
   small |-> None,
   department |-> <<"department">>,
   issued_date |-> None,
   last_amended |-> <<"sfs">>,
   chapter |-> [i \in 1..nc |-> ChapterOf(i, ns, chn, secn, c, p, q)]]

\* The numbers a chapter or section heading may hold.
Numbers == {None, <<"1">>, <<"2">>}

\* The numbering by position.
ByPosition == [n \in 1..(MaxChapters + MaxSections) |-> Numeral(n)]

\* Pages of every structure, numbered by position.
StructurePages ==
  { PageOf(nc, ns, ByPosition, ByPosition, c, p, q) :
      nc \in 0..MaxChapters, ns \in 0..MaxSections,
      c \in 0..MaxComments, p \in 0..MaxParagraphs, q \in 0..MaxPoints }

\* Pages of one structure, of every numbering.
NumberingPages ==
  { PageOf(MaxChapters, MaxSections, chn, secn, 1, 1, 1) :
      chn \in [1..MaxChapters -> Numbers], secn \in [1..MaxSections -> Numbers] }

\* The pages a law URL of the crawl may hold.
LawPages ==
  { PageOf(0, 0, ByPosition, ByPosition, 0, 0, 0),
    PageOf(1, 0, ByPosition, ByPosition, 0, 0, 0),
    PageOf(1, 0, ByPosition, ByPosition, 1, 1, 1) }

ParseLaw(r) ==
  /\ r \in scheduler
  /\ r.callback = "parse_law"
  /\ \E page \in LawPages :
       LET category == r.category
           law_name == LastSegment(HrefStr(r.url))
           law == BuildLaw(law_name, page)
       IN IF category \in Keys(data)
          THEN /\ data' = InsertLaw(data, category, law_name, law)
               /\ last' = Log("parse_law", r, <<>>, <<>>, law, NoExc, data)
          ELSE /\ data' = data
               /\ last' = Log("parse_law", r, <<>>, <<>>, law, "KeyError", data)
  /\ scheduler' = scheduler \ {r}
  /\ UNCHANGED <<seen, blobs, documents>>

\* closed: the corpus is dumped once the crawl has no request left.
Closed ==
  /\ scheduler = {}
  /\ blobs = <<>>
  /\ blobs' = <<[lagen |-> [lagar |-> data]]>>
  /\ UNCHANGED <<data, scheduler, seen, last, documents>>

NotRun == [exc |-> "not run", chunks |-> <<>>]

\* main's read_documents, over the dumped corpus.
ReadDocuments ==
  /\ blobs # <<>>
  /\ documents = NotRun
  /\ documents' = read_documents(blobs)
  /\ UNCHANGED <<data, scheduler, seen, last, blobs>>

Idle == Log("init", Request(StartUrl, "parse", <<>>), <<>>, <<>>, None, NoExc, <<>>)

Init ==
  /\ data = <<>>
  /\ scheduler = {Request(StartUrl, "parse", <<>>)}
  /\ seen = {}
  /\ last = Idle
  /\ blobs = <<>>
  /\ documents = NotRun

Next ==
  \/ \E r \in scheduler : Parse(r)
  \/ \E r \in scheduler : ParseCategory(r)
  \/ \E r \in scheduler : ParseLaw(r)
  \/ Closed
  \/ ReadDocuments

Spec == Init /\ [][Next]_vars

(***************************************************************************)
(* The flattening alone: the corpus holds one law, built from a page of    *)
(* StructurePages or NumberingPages, and read_documents runs on it.        *)
(***************************************************************************)
OneLaw(law) ==
  [lagen |-> [lagar |-> << [key |-> <<"k">>,
                            val |-> << [key |-> <<"l1">>, val |-> law] >>] >>]]

InitFlat ==
  /\ data = <<>>
  /\ scheduler = {}
  /\ seen = {}
  /\ last = Idle
  /\ \E page \in StructurePages \cup NumberingPages :
       blobs = <<OneLaw(BuildLaw(<<"l1">>, page))>>
  /\ documents = NotRun

NextFlat == ReadDocuments

SpecFlat == InitFlat /\ [][NextFlat]_vars

(***************************************************************************)
(* The flattening of records that lack a field: the corpus holds one law   *)
(* of StructurePages from which one kind of field was removed, or in which *)
(* one kind of list was emptied, at every place it occurs.                 *)
(***************************************************************************)
Without(d, key) == [k \in DOMAIN d \ {key} |-> d[k]]

Damage(node, key, mode) ==
  IF mode = "missing" THEN Without(node, key) ELSE [node EXCEPT ![key] = <<>>]

\* node with every element of its list damaged.
DamageEach(node, list, key, mode) ==
  [node EXCEPT ![list] = [n \in 1..Len(node[list]) |-> Damage(node[list][n], key, mode)]]

DamageSection(section, level, key, mode) ==
  CASE level = "section" -> Damage(section, key, mode)
    [] level = "comment" -> DamageEach(section, "comments", key, mode)
    [] level = "amendment" -> DamageEach(section, "amendments", key, mode)
    [] level = "paragraph" -> DamageEach(section, "paragraphs", key, mode)

DamageChapter(chapter, level, key, mode) ==
  IF level = "chapter" THEN Damage(chapter, key, mode)
  ELSE [chapter EXCEPT !.sections =
          [j \in 1..Len(chapter.sections) |->
             DamageSection(chapter.sections[j], level, key, mode)]]

DamageLaw(law, level, key, mode) ==
  CASE level = "law" -> Damage(law, key, mode)
    [] level = "metadata" -> [law EXCEPT !.metadata = Damage(law.metadata, key, mode)]
    [] OTHER -> [law EXCEPT !.chapters =
                   [i \in 1..Len(law.chapters) |->
                      DamageChapter(law.chapters[i], level, key, mode)]]

Defects ==
  { <<"law", "title", "missing">>, <<"law", "metadata", "missing">>,
    <<"law", "chapters", "missing">>, <<"law", "chapters", "empty">>,
    <<"metadata", "department", "missing">>, <<"metadata", "last_amended", "missing">>,
    <<"chapter", "number", "missing">>, <<"chapter", "title", "missing">>,
    <<"chapter", "sections", "missing">>, <<"chapter", "sections", "empty">>,
    <<"section", "number", "missing">>, <<"section", "text", "missing">>,
    <<"section", "comments", "missing">>, <<"section", "comments", "empty">>,
    <<"section", "amendments", "missing">>, <<"section", "amendments", "empty">>,
    <<"section", "case_law", "missing">>, <<"section", "case_law", "empty">>,
    <<"section", "citations", "missing">>, <<"section", "citations", "empty">>,
    <<"section", "paragraphs", "missing">>, <<"section", "paragraphs", "empty">>,
    <<"paragraph", "text", "missing">>, <<"paragraph", "points", "missing">>,
    <<"paragraph", "points", "empty">>,
    <<"comment", "text", "missing">>, <<"comment", "type", "missing">>,
    <<"amendment", "law", "missing">> }

InitShape ==
  /\ data = <<>>
  /\ scheduler = {}
  /\ seen = {}
  /\ last = Idle
  /\ \E page \in StructurePages, d \in Defects :
       blobs = <<OneLaw(DamageLaw(BuildLaw(<<"l1">>, page), d[1], d[2], d[3]))>>
  /\ documents = NotRun

SpecShape == InitShape /\ [][NextFlat]_vars

(***************************************************************************)
(* Reading the model's states.                                             *)
(***************************************************************************)
\* The law of a corpus that holds one.
TheLaw == blobs[1].lagen.lagar[1].val[1].val

Ran == documents # NotRun

Chunks == documents.chunks

RECURSIVE Sum(_)
Sum(ns) == IF Len(ns) = 0 THEN 0 ELSE Head(ns) + Sum(Tail(ns))

\* The positions <<i, j>> of the sections of a law.
Sections(law) ==
  UNION {{<<i, j>> : j \in 1..Len(law.chapters[i].sections)} : i \in 1..Len(law.chapters)}

SectionAt(law, ij) == law.chapters[ij[1]].sections[ij[2]]

\* The kind of a chunk of a page of PageOf, and the position of the element it
\* was made from: every text of such a page names both.
KindOf(chunk) == chunk.content[1]

PosOf(chunk) ==
  [n \in 1..(Len(chunk.content) - 1) |->
     CHOOSE d \in 0..9 : ToString(d) = chunk.content[n + 1]]

SectionCount(section) ==
  1 + Len(section.comments) + Len(section.paragraphs)
    + Sum([k \in 1..Len(section.paragraphs) |-> Len(section.paragraphs[k].points)])

ExpectedCount(law) ==
  Sum([i \in 1..Len(law.chapters) |->
         Sum([j \in 1..Len(law.chapters[i].sections) |->
                SectionCount(law.chapters[i].sections[j])])])

(***************************************************************************)
(* C1.  The number of chunks of a law is the sum, over its sections, of    *)
(* 1 + the section's comments + its paragraphs + the points of those       *)
(* paragraphs.                                                             *)
(***************************************************************************)
C1_ChunkCount ==
  Ran => documents.exc = NoExc /\ Len(Chunks) = ExpectedCount(TheLaw)

\* A law of two chapters, one of whose sections holds two comments and two
\* paragraphs, one of them of two points, was flattened.
C1_Witness ==
  /\ Ran
  /\ Len(TheLaw.chapters) = 2
  /\ \E ij \in Sections(TheLaw) :
       LET section == SectionAt(TheLaw, ij)
       IN /\ Len(section.comments) = 2
          /\ Len(section.paragraphs) = 2
          /\ \E k \in 1..2 : Len(section.paragraphs[k].points) = 2

(***************************************************************************)
(* C2.  As claimed: no two chunks of a law have the same path.             *)
(***************************************************************************)
C2_PathsUnique ==
  Ran => \A a, b \in 1..Len(Chunks) :
           a # b => Chunks[a].metadata.path # Chunks[b].metadata.path

\* The sections of a law are numbered apart: no two of them have the same
\* chapter number and section number, as the path renders them.
NumberedApart(law) ==
  \A x, y \in Sections(law) :
    x # y => <<Str(law.chapters[x[1]].number), Str(SectionAt(law, x).number)>>
             # <<Str(law.chapters[y[1]].number), Str(SectionAt(law, y).number)>>

IsComment(chunk) == "comment_type" \in DOMAIN chunk.metadata

(***************************************************************************)
(* C2, amended.  In a law whose sections are numbered apart, two chunks    *)
(* have the same path only when both are comments of one section; the      *)
(* comments of a section do all have the same path.                        *)
(***************************************************************************)
C2_PathsUniqueButComments ==
  Ran /\ NumberedApart(TheLaw) =>
    \A a, b \in 1..Len(Chunks) :
      a # b =>
        (Chunks[a].metadata.path = Chunks[b].metadata.path
           <=> /\ IsComment(Chunks[a])
               /\ IsComment(Chunks[b])
               /\ SubSeq(PosOf(Chunks[a]), 1, 2) = SubSeq(PosOf(Chunks[b]), 1, 2))

\* A law of two chapters of sections numbered apart, with a section of two
\* comments and a paragraph of two points, was flattened.
C2_Witness ==
  /\ Ran
  /\ NumberedApart(TheLaw)
  /\ Len(TheLaw.chapters) = 2
  /\ Cardinality(Sections(TheLaw)) >= 3
  /\ \E ij \in Sections(TheLaw) : Len(SectionAt(TheLaw, ij).comments) = 2
  /\ \E a \in 1..Len(Chunks) : KindOf(Chunks[a]) = "pt" /\ PosOf(Chunks[a])[4] = 2

\* The place of an element in document order.
OrderKey(kind, pos) ==
  CASE kind = "sec" -> <<pos[1], pos[2], 0, 0, 0>>
    [] kind = "com" -> <<pos[1], pos[2], 1, pos[3], 0>>
    [] kind = "par" -> <<pos[1], pos[2], 2, pos[3], 0>>
    [] kind = "pt" -> <<pos[1], pos[2], 2, pos[3], pos[4]>>

Before(x, y) ==
  \E n \in 1..5 : x[n] < y[n] /\ \A m \in 1..(n - 1) : x[m] = y[m]

\* The elements of a law.
Elements(law) ==
  UNION { LET section == SectionAt(law, ij)
          IN {OrderKey("sec", ij)}
             \cup {OrderKey("com", ij \o <<k>>) : k \in 1..Len(section.comments)}
             \cup {OrderKey("par", ij \o <<k>>) : k \in 1..Len(section.paragraphs)}
             \cup UNION {{OrderKey("pt", ij \o <<k, l>>) :
                            l \in 1..Len(section.paragraphs[k].points)} :
                         k \in 1..Len(section.paragraphs)}
        : ij \in Sections(law) }

ChunkKey(chunk) == OrderKey(KindOf(chunk), PosOf(chunk))

\* The last n tokens of a path.
Ending(path, n) == SubSeq(path, Len(path) - n + 1, Len(path))

(***************************************************************************)
(* C8.  The chunks come in document order: by chapter, by section, the     *)
(* section chunk, then the comments in order, then each paragraph in order *)
(* followed at once by its points in order; every element of the law has   *)
(* its chunk, and the paragraph and point indices of a path are the        *)
(* positions, counted from 1.                                              *)
(***************************************************************************)
C8_DocumentOrder ==
  Ran =>
    /\ \A a \in 1..(Len(Chunks) - 1) : Before(ChunkKey(Chunks[a]), ChunkKey(Chunks[a + 1]))
    /\ {ChunkKey(Chunks[a]) : a \in 1..Len(Chunks)} = Elements(TheLaw)
    /\ \A a \in 1..Len(Chunks) :
         LET path == Chunks[a].metadata.path
             pos == PosOf(Chunks[a])
         IN /\ KindOf(Chunks[a]) = "par" =>
                 Ending(path, 3) = <<SEP, "Paragraph ", ToString(pos[3])>>
            /\ KindOf(Chunks[a]) = "pt" =>
                 Ending(path, 6) = <<SEP, "Paragraph ", ToString(pos[3]),
                                     SEP, "Point ", ToString(pos[4])>>

\* A law whose second chapter has a section with a comment and two paragraphs,
\* the second of two points, was flattened.
C8_Witness ==
  /\ Ran
  /\ \E a \in 1..Len(Chunks) : ChunkKey(Chunks[a]) = <<2, 1, 1, 1, 0>>
  /\ \E a \in 1..Len(Chunks) : ChunkKey(Chunks[a]) = <<2, 1, 2, 2, 2>>

(***************************************************************************)
(* C9.  The metadata of a chunk by kind: a section chunk carries path,     *)
(* law_info, chapter_title, section_number, amendments, case_law_count and *)
(* citations_count; a comment chunk exactly path, law_info, comment_type   *)
(* and section_number; a paragraph or point chunk exactly path, law_info   *)
(* and section_number.                                                     *)
(***************************************************************************)
C9_MetadataByKind ==
  Ran =>
    \A a \in 1..Len(Chunks) :
      LET keys == DOMAIN Chunks[a].metadata
          kind == KindOf(Chunks[a])
      IN /\ kind = "sec" =>
              {"path", "law_info", "chapter_title", "section_number", "amendments",
               "case_law_count", "citations_count"} \subseteq keys
         /\ kind = "com" => keys = {"path", "law_info", "comment_type", "section_number"}
         /\ kind \in {"par", "pt"} => keys = {"path", "law_info", "section_number"}

\* A law was flattened into chunks of all four kinds.
C9_Witness ==
  /\ Ran
  /\ \A kind \in {"sec", "com", "par", "pt"} :
       \E a \in 1..Len(Chunks) : KindOf(Chunks[a]) = kind

(***************************************************************************)
(* C6.  As claimed: split_documents returns, whatever field or list of the *)
(* record is missing or empty.                                             *)
(***************************************************************************)
C6_NeverRaises == Ran => documents.exc = NoExc

(***************************************************************************)
(* Reading the corpus.                                                     *)
(***************************************************************************)
\* The (category, law id) pairs of a corpus.
LawKeys(d) == UNION {{<<c, n>> : n \in Keys(Lookup(d, c))} : c \in Keys(d)}

LawAt(d, key) == Lookup(Lookup(d, key[1]), key[2])

\* A parse_law callback was the last to run, and it ended normally.
Inserted == last.callback = "parse_law" /\ last.raised = NoExc

\* The key parse_law inserts under.
InsertedKey == <<last.category, LastSegment(HrefStr(last.url))>>

(***************************************************************************)
(* C3.  After parse_law has inserted a law, its key holds exactly the law  *)
(* built from the page, whatever the key held before, and every other key  *)
(* of the corpus holds what it held before.                                *)
(***************************************************************************)
C3_LastWriteWins ==
  Inserted =>
    /\ Keys(data) = Keys(last.before)
    /\ LawKeys(data) = LawKeys(last.before) \cup {InsertedKey}
    /\ LawAt(data, InsertedKey) = last.law
    /\ \A key \in LawKeys(data) \ {InsertedKey} : LawAt(data, key) = LawAt(last.before, key)

\* parse_law has replaced a different law under its key, in a corpus that
\* holds a law under another key too.
C3_Witness ==
  /\ Inserted
  /\ InsertedKey \in LawKeys(last.before)
  /\ LawAt(last.before, InsertedKey).chapters # last.law.chapters
  /\ LawKeys(last.before) # {InsertedKey}

(***************************************************************************)
(* C4.  As claimed: a (category, law id) key of the corpus is still a key  *)
(* of it after any callback.                                               *)
(***************************************************************************)
C4_KeysStay == LawKeys(last.before) \subseteq LawKeys(data)

ResolvedPathAllowed(base, h) ==
  ~ \E disallowed \in Disallowed : Contains(urljoin(base, h).path, disallowed)

\* The elements of a sequence at the positions idx, in order.
Pick(seq, idx) ==
  LET Nth(n) == CHOOSE i \in idx : Cardinality({j \in idx : j < i}) = n - 1
  IN [n \in 1..Cardinality(idx) |-> seq[Nth(n)]]

(***************************************************************************)
(* C5.  As claimed: parse follows exactly the links whose host is the      *)
(* page's or none, and whose path, once the link is resolved against the   *)
(* page URL, contains none of the excluded substrings; and parse leaves    *)
(* the corpus as it was.                                                   *)
(***************************************************************************)
C5_LinkClassification ==
  last.callback = "parse" =>
    LET kept == Pick(last.links,
                     {i \in 1..Len(last.links) :
                        /\ (last.links[i].netloc = last.url.netloc
                              \/ last.links[i].netloc = "")
                        /\ ResolvedPathAllowed(last.url, last.links[i])})
    IN /\ last.followed = [n \in 1..Len(kept) |-> urljoin(last.url, kept[n])]
       /\ data = last.before

\* The path of every chunk of the law under a key begins with this.
PathHead(key) == key[1] \o <<SEP>> \o key[2] \o <<SEP>>

IsChunkOf(chunk, key) ==
  LET path == chunk.metadata.path
      head == PathHead(key)
  IN Len(path) >= Len(head) /\ SubSeq(path, 1, Len(head)) = head

C10_CategoryExists ==
  /\ \A r \in scheduler : r.callback = "parse_law" => r.category \in Keys(data)
  /\ last.raised = NoExc

\* parse_law has run for a category while another category callback had run
\* since that category was created, and law requests are still pending.
C10_Witness ==
  /\ Inserted
  /\ Len(data) >= 2
  /\ data[1].key = last.category
  /\ \E r \in scheduler : r.callback = "parse_law"

====
